---- MODULE Spec2Model ----
(***************************************************************************)
(* The Nachos MP4 file system: free-sector bitmap, file headers with one   *)
(* level of index blocks, directory tables and the path operations of      *)
(* FileSystem (filesys.cc, filehdr.cc, directory.cc).                      *)
(*                                                                         *)
(* Sizes are counted in units of one directory entry: a sector holds       *)
(* SectorSize units, a directory table is NumDirEntries units long.        *)
(***************************************************************************)
EXTENDS Integers, Sequences, FiniteSets, TLC

VARIABLES disk, fault, last, nops, freeMap, hdr, phase, fileDescriptorTable, dirTable,
          threads

vars == <<disk, fault, last, nops, freeMap, hdr, phase, fileDescriptorTable, dirTable,
          threads>>

(***************************************************************************)
(* Sizes                                                                   *)
(***************************************************************************)
\* sectors of the disk the path operations run on
NumSectors == 14
\* units per sector
SectorSize == 2
\* entries of a directory table (64 in the source, scaled)
NumDirEntries == 2
\* slots of an index block: int index[32]
IndexSlots == 32
\* sectors of the disk the Allocate/Deallocate harness runs on
AllocSectors == 36
\* number of operations of one run
MaxOps == 4
\* number of operations of one run with long names
LenOps == 3
\* number of calls that build the tree a file is then made in and removed from
PairOps == 3
\* number of Add and Remove calls on one table
DirOps == 5
\* number of operations of one run that ends with a Find
FindOps == 4
\* number of system calls of one run on the descriptor table
FdOps == 23
\* slots of fileDescriptorTable
FdSlots == 20
\* an empty slot of fileDescriptorTable, the handle of a file not found
NULL == -1

FreeMapSector == 0
DirectorySector == 1

\* filehdr.h: the header is numBytes, numSectors and NumDirect pointers, one sector
NumDirect == IndexSlots - 2
\* the bit vector fills exactly one sector (NumSectors / BitsInByte bytes)
FreeMapFileSize == SectorSize
DirectoryFileSize == NumDirEntries

divRoundUp(n, s) == IF n + s - 1 >= 0 THEN (n + s - 1) \div s ELSE -((-(n + s - 1)) \div s)
divRoundDown(n, s) == IF n >= 0 THEN n \div s ELSE -((-n) \div s)

(***************************************************************************)
(* Sector contents.  A header and an index block are both 32 ints, so one  *)
(* reads as the other; a sector of zero bytes reads as 32 zeros and as     *)
(* unused directory entries.                                               *)
(***************************************************************************)
IntsSec(v) == [kind |-> "ints", v |-> v]
TabSec(c) == [kind |-> "tab", c |-> c]
BitsSec(b) == [kind |-> "bits", b |-> b]

ZeroInts == [i \in 0..(IndexSlots - 1) |-> 0]
ZeroSec == IntsSec(ZeroInts)

BlankEntry == [inUse |-> FALSE, name |-> "", sector |-> 0, type |-> "NIL"]
\* bytes of a header or index block left behind a partly written table sector
WildCell == [inUse |-> FALSE, name |-> "", sector |-> 0, type |-> "WILD"]
BlankCells == [i \in 0..(SectorSize - 1) |-> BlankEntry]
\* Directory::Directory: a table with no entry in use
EmptyTable == [i \in 0..(NumDirEntries - 1) |-> BlankEntry]

\* the value stored for a sector image: all-zero bytes have one representation
Canon(c) == IF c.kind = "tab" /\ c.c = BlankCells THEN ZeroSec ELSE c

(***************************************************************************)
(* The machine: the disk and the fault that stopped the program, if any.   *)
(*   "badsector"  Disk::ReadSector/WriteSector on a sector number outside  *)
(*                the disk                                                 *)
(*   "assert"     a failed ASSERT (Deallocate, Bitmap)                     *)
(*   "wild"       bytes of one kind read as another kind, a write past an  *)
(*                array, unbounded recursion: outcome not modelled         *)
(* log lists, in order, what the running call did to the disk: "sector"    *)
(* for every sector written, "hdr", "dir" and "bitmap" for every WriteBack *)
(* of a file header, a directory table and the bitmap.                     *)
(***************************************************************************)
Mach(d, f) == [disk |-> d, fault |-> f, log |-> <<>>]
Ok(m) == m.fault = "none"
Fail(m, f) == IF Ok(m) THEN [m EXCEPT !.fault = f] ELSE m
Logged(m, e) == IF Ok(m) THEN [m EXCEPT !.log = Append(@, e)] ELSE m
ValidSector(m, s) == s \in DOMAIN m.disk

\* SynchDisk::WriteSector
WriteSector(m, s, c) ==
    IF ~Ok(m) THEN m
    ELSE IF ~ValidSector(m, s) THEN Fail(m, "badsector")
    ELSE [m EXCEPT !.disk[s] = Canon(c), !.log = Append(@, "sector")]

\* SynchDisk::ReadSector into an int array
ReadInts(m, s) ==
    IF ~Ok(m) THEN [m |-> m, v |-> ZeroInts]
    ELSE IF ~ValidSector(m, s) THEN [m |-> Fail(m, "badsector"), v |-> ZeroInts]
    ELSE IF m.disk[s].kind = "ints" THEN [m |-> m, v |-> m.disk[s].v]
    ELSE [m |-> Fail(m, "wild"), v |-> ZeroInts]

\* SynchDisk::ReadSector into directory entries
ReadCells(m, s) ==
    IF ~Ok(m) THEN [m |-> m, c |-> BlankCells]
    ELSE IF ~ValidSector(m, s) THEN [m |-> Fail(m, "badsector"), c |-> BlankCells]
    ELSE IF m.disk[s].kind = "tab" THEN [m |-> m, c |-> m.disk[s].c]
    ELSE IF m.disk[s] = ZeroSec THEN [m |-> m, c |-> BlankCells]
    ELSE [m |-> m, c |-> [i \in 0..(SectorSize - 1) |-> WildCell]]

(***************************************************************************)
(* Bitmap (bitmap.cc, pbitmap.cc): a function from sector numbers to       *)
(* BOOLEAN.                                                                *)
(***************************************************************************)
NumClear(bm) == Cardinality({i \in DOMAIN bm : ~bm[i]})
Test(bm, i) == i \in DOMAIN bm /\ bm[i]
Mark(bm, i) == [bm EXCEPT ![i] = TRUE]

MinOf(S) == CHOOSE x \in S : \A y \in S : x <= y

\* the lowest clear bit, set; -1 when there is none
FindAndSet(bm) ==
    LET free == {i \in DOMAIN bm : ~bm[i]}
    IN  IF free = {} THEN [bm |-> bm, s |-> -1]
        ELSE [bm |-> [bm EXCEPT ![MinOf(free)] = TRUE], s |-> MinOf(free)]

\* Bitmap::Clear: the bit must be in range and set
ClearBit(m, bm, i) ==
    IF ~Ok(m) THEN [m |-> m, bm |-> bm]
    ELSE IF ~Test(bm, i) THEN [m |-> Fail(m, "assert"), bm |-> bm]
    ELSE [m |-> m, bm |-> [bm EXCEPT ![i] = FALSE]]

(***************************************************************************)
(* FileHeader (filehdr.cc)                                                 *)
(***************************************************************************)
\* FileHeader::FileHeader
NewHeader == [numBytes |-> -1, numSectors |-> -1,
              dataSectors |-> [j \in 0..(NumDirect - 1) |-> -1]]

HdrToInts(h) ==
    [i \in 0..(IndexSlots - 1) |->
        IF i = 0 THEN h.numBytes ELSE IF i = 1 THEN h.numSectors ELSE h.dataSectors[i - 2]]
IntsToHdr(v) ==
    [numBytes |-> v[0], numSectors |-> v[1],
     dataSectors |-> [j \in 0..(NumDirect - 1) |-> v[j + 2]]]

\* FileHeader::FetchFrom
HdrFetchFrom(m, s) ==
    LET r == ReadInts(m, s) IN [m |-> r.m, h |-> IntsToHdr(r.v)]

\* FileHeader::WriteBack
HdrWriteBack(m, h, s) == WriteSector(Logged(m, "hdr"), s, IntsSec(HdrToInts(h)))

\* the i-th lowest clear bit of bm (i from 0), -1 when there are not that many:
\* what the (i+1)-th of a run of FindAndSet calls returns
NthClear(bm, i) ==
    LET free == {x \in DOMAIN bm : ~bm[x]}
        hit == {x \in free : Cardinality({y \in free : y < x}) = i}
    IN  IF hit = {} THEN -1 ELSE MinOf(hit)

\* the inner loop of Allocate: for(i=0; i<32 && num>0; i++) index[i] = FindAndSet()
FillIndex(bm, num) ==
    LET index == [i \in 0..(IndexSlots - 1) |-> IF i < num THEN NthClear(bm, i) ELSE -1]
        got == {index[i] : i \in 0..(IndexSlots - 1)}
    IN  [bm |-> [x \in DOMAIN bm |-> bm[x] \/ x \in got],
         index |-> index,
         num |-> IF num > IndexSlots THEN num - IndexSlots ELSE 0]

\* the outer loop of Allocate: while(num>0)
RECURSIVE AllocLoop(_, _, _, _, _)
AllocLoop(m, bm, ds, j, num) ==
    IF num <= 0 \/ ~Ok(m) THEN [m |-> m, bm |-> bm, ds |-> ds]
    ELSE IF j >= NumDirect THEN [m |-> Fail(m, "wild"), bm |-> bm, ds |-> ds]
    ELSE LET r == FindAndSet(bm)
             f == FillIndex(r.bm, num)
         IN  AllocLoop(WriteSector(m, r.s, IntsSec(f.index)), f.bm,
                       [ds EXCEPT ![j] = r.s], j + 1, f.num)

\* FileHeader::Allocate
Allocate(m, bm, h, fileSize) ==
    LET n == divRoundUp(fileSize, SectorSize)
        h1 == [h EXCEPT !.numBytes = fileSize, !.numSectors = n]
        r == AllocLoop(m, bm, h1.dataSectors, 0, n)
    IN  IF ~Ok(m) THEN [m |-> m, bm |-> bm, h |-> h, ret |-> FALSE]
        ELSE IF NumClear(bm) < n THEN [m |-> m, bm |-> bm, h |-> h1, ret |-> FALSE]
        ELSE [m |-> r.m, bm |-> r.bm, h |-> [h1 EXCEPT !.dataSectors = r.ds], ret |-> TRUE]

\* the inner loop of Deallocate: Clear every slot that is not -1, in slot order;
\* a Clear of a bit that is clear (also: cleared by an earlier slot) stops the program
ClearSlots(m, bm, index) ==
    LET used == {j \in 0..(IndexSlots - 1) : index[j] # -1}
        bad == \E j \in used :
                  \/ ~Test(bm, index[j])
                  \/ \E k \in used : k < j /\ index[k] = index[j]
    IN  IF ~Ok(m) THEN [m |-> m, bm |-> bm]
        ELSE IF bad THEN [m |-> Fail(m, "assert"), bm |-> bm]
        ELSE [m |-> m, bm |-> [x \in DOMAIN bm |-> bm[x] /\ ~(\E j \in used : index[j] = x)]]

\* the outer loop of Deallocate over the index blocks
RECURSIVE DeallocLoop(_, _, _, _)
DeallocLoop(m, bm, h, i) ==
    IF i >= divRoundUp(h.numSectors, IndexSlots) \/ ~Ok(m) THEN [m |-> m, bm |-> bm]
    ELSE IF i >= NumDirect THEN [m |-> Fail(m, "wild"), bm |-> bm]
    ELSE LET rd == ReadInts(m, h.dataSectors[i])
             cs == ClearSlots(rd.m, bm, rd.v)
             \* ASSERT(freeMap->Test(dataSectors[i])), then Clear
             cl == ClearBit(cs.m, cs.bm, h.dataSectors[i])
         IN  DeallocLoop(cl.m, cl.bm, h, i + 1)

DeallocateKeepIndexBlocks(m, bm, h) ==
    LET r == DeallocLoop(m, bm, h, 0)
    IN  [m |-> r.m,
         bm |-> [s \in DOMAIN bm |->
                   IF \E i \in 0..(NumDirect - 1) :
                        i < divRoundUp(h.numSectors, IndexSlots) /\ h.dataSectors[i] = s
                   THEN bm[s] ELSE r.bm[s]]]

\* FileHeader::Deallocate
Deallocate(m, bm, h) == DeallocLoop(m, bm, h, 0)

\* FileHeader::ByteToSector
ByteToSector(m, h, offset) ==
    LET target == divRoundDown(offset, SectorSize)
        l1 == divRoundDown(target, IndexSlots)
    IN  IF l1 < 0 \/ l1 >= NumDirect THEN [m |-> Fail(m, "wild"), s |-> -1]
        ELSE LET rd == ReadInts(m, h.dataSectors[l1])
             IN  [m |-> rd.m, s |-> rd.v[target % IndexSlots]]

\* FileHeader::FileLength
FileLength(h) == h.numBytes

(***************************************************************************)
(* Allocate followed by Deallocate on one header, from bitmaps with some   *)
(* sectors already taken.                                                  *)
(***************************************************************************)
AllocDisk == [s \in 0..(AllocSectors - 1) |-> ZeroSec]

\* the bitmaps the harness starts from: the first k sectors taken, with or
\* without a hole at sector 1
InitMaps ==
    {[s \in 0..(AllocSectors - 1) |-> s < k] : k \in 0..AllocSectors}
    \cup {[s \in 0..(AllocSectors - 1) |-> s < k /\ s # 1] : k \in 2..AllocSectors}

\* the sizes asked for: every whole number of sectors, and sizes one unit over
AllocSizes ==
    {n * SectorSize : n \in 0..AllocSectors} \cup {n * SectorSize + 1 : n \in 0..IndexSlots}

NoLast == [op |-> "none"]

\* no thread is inside a call
NoThreads == <<>>

\* fileDescriptorTable with no file open
NoFiles == [i \in 0..(FdSlots - 1) |-> NULL]

InitAlloc ==
    /\ disk = AllocDisk
    /\ fault = "none"
    /\ freeMap \in InitMaps
    /\ hdr = NewHeader
    /\ phase = "fresh"
    /\ last = NoLast
    /\ nops = 0
    /\ fileDescriptorTable = NoFiles
    /\ dirTable = EmptyTable
    /\ threads = NoThreads

DoAllocate ==
    /\ phase = "fresh"
    /\ fault = "none"
    /\ \E size \in AllocSizes :
         LET r == Allocate(Mach(disk, fault), freeMap, hdr, size)
         IN  /\ disk' = r.m.disk
             /\ fault' = r.m.fault
             /\ freeMap' = r.bm
             /\ hdr' = r.h
             /\ phase' = "allocated"
             /\ last' = [op |-> "Allocate", size |-> size, ret |-> r.ret, before |-> freeMap]
    /\ nops' = nops + 1
    /\ UNCHANGED <<fileDescriptorTable, dirTable, threads>>

DoDeallocate ==
    /\ phase = "allocated"
    /\ fault = "none"
    /\ last.ret
    /\ LET r == Deallocate(Mach(disk, fault), freeMap, hdr)
       IN  /\ disk' = r.m.disk
           /\ fault' = r.m.fault
           /\ freeMap' = r.bm
    /\ phase' = "freed"
    /\ nops' = nops + 1
    /\ UNCHANGED <<hdr, last, fileDescriptorTable, dirTable, threads>>

\* ByteToSector at one offset of the file whose header Allocate filled
DoByteToSector ==
    /\ phase = "allocated"
    /\ fault = "none"
    /\ last.ret
    /\ \E offset \in 0..(FileLength(hdr) - 1) :
         LET r == ByteToSector(Mach(disk, fault), hdr, offset)
         IN  /\ fault' = r.m.fault
             /\ last' = [op |-> "ByteToSector", size |-> last.size, ret |-> TRUE,
                         before |-> last.before, offset |-> offset, sector |-> r.s]
    /\ phase' = "mapped"
    /\ nops' = nops + 1
    /\ UNCHANGED <<disk, freeMap, hdr, fileDescriptorTable, dirTable, threads>>

NextAlloc == DoAllocate \/ DoDeallocate \/ DoByteToSector

SpecAlloc == InitAlloc /\ [][NextAlloc]_vars

(***************************************************************************)
(* OpenFile (openfile.cc): the header is read when the file is opened;     *)
(* ReadAt and WriteAt move whole sectors and stop at the file length.      *)
(***************************************************************************)
\* OpenFile::OpenFile
OpenFile(m, s) == HdrFetchFrom(m, s)

Min2(a, b) == IF a < b THEN a ELSE b

\* the sectors 0..n-1 of the file read in order, as directory entries
RECURSIVE ReadFileCells(_, _, _, _)
ReadFileCells(m, h, i, n) ==
    IF i >= n \/ ~Ok(m) THEN [m |-> m, c |-> <<>>]
    ELSE LET b == ByteToSector(m, h, i * SectorSize)
             r == ReadCells(b.m, b.s)
             rest == ReadFileCells(r.m, h, i + 1, n)
         IN  [m |-> rest.m, c |-> <<r.c>> \o rest.c]

\* the table after ReadAt has copied numBytes entries out of the sectors read
Overlay(rd, numBytes, table) ==
    LET got == [k \in 0..(numBytes - 1) |-> rd.c[(k \div SectorSize) + 1][k % SectorSize]]
    IN  IF ~Ok(rd.m) THEN [m |-> rd.m, t |-> table]
        ELSE IF \E k \in 0..(numBytes - 1) : got[k].type = "WILD"
             THEN [m |-> Fail(rd.m, "wild"), t |-> table]
        ELSE [m |-> rd.m,
              t |-> [k \in 0..(NumDirEntries - 1) |-> IF k < numBytes THEN got[k] ELSE table[k]]]

\* Directory::FetchFrom: ReadAt(table, tableSize, 0) over what the table held
DirFetchFrom(m, h, table) ==
    IF ~Ok(m) \/ FileLength(h) <= 0 THEN [m |-> m, t |-> table]
    ELSE Overlay(ReadFileCells(m, h, 0,
                     divRoundDown(Min2(NumDirEntries, FileLength(h)) - 1, SectorSize) + 1),
                 Min2(NumDirEntries, FileLength(h)), table)

\* the sectors i..n-1 of the file written in order
RECURSIVE WriteFileCells(_, _, _, _, _)
WriteFileCells(m, h, cells, i, n) ==
    IF i >= n \/ ~Ok(m) THEN m
    ELSE LET b == ByteToSector(m, h, i * SectorSize)
         IN  WriteFileCells(WriteSector(b.m, b.s, TabSec(cells[i])), h, cells, i + 1, n)

\* WriteAt(table, tableSize, 0).  The bytes of the last sector past the end
\* of the file come from an uninitialised buffer.
WriteTable(m, h, table) ==
    LET numBytes == Min2(NumDirEntries, FileLength(h))
        n == divRoundDown(numBytes - 1, SectorSize) + 1
        lastAligned == numBytes = n * SectorSize
        \* the partly written last sector is read first
        b == ByteToSector(m, h, (n - 1) * SectorSize)
        pre == IF lastAligned THEN m ELSE ReadCells(b.m, b.s).m
        cells == [i \in 0..(n - 1) |->
                    [c \in 0..(SectorSize - 1) |->
                        IF i * SectorSize + c < numBytes THEN table[i * SectorSize + c]
                        ELSE WildCell]]
    IN  IF ~Ok(m) \/ FileLength(h) <= 0 THEN m
        ELSE WriteFileCells(pre, h, cells, 0, n)

\* Directory::WriteBack
DirWriteBack(m, h, table) == WriteTable(Logged(m, "dir"), h, table)

AllClear(m) == [s \in DOMAIN m.disk |-> FALSE]

\* PersistentBitmap::PersistentBitmap(file, n): an empty map, then FetchFrom
BitmapFetchFrom(m, h) ==
    LET b == ByteToSector(m, h, 0)
    IN  IF ~Ok(m) \/ FileLength(h) <= 0 THEN [m |-> m, bm |-> AllClear(m)]
        ELSE IF FileLength(h) < FreeMapFileSize
             THEN [m |-> Fail(m, "wild"), bm |-> AllClear(m)]
        ELSE IF ~Ok(b.m) THEN [m |-> b.m, bm |-> AllClear(m)]
        ELSE IF ~ValidSector(m, b.s) THEN [m |-> Fail(m, "badsector"), bm |-> AllClear(m)]
        ELSE IF m.disk[b.s].kind = "bits" THEN [m |-> m, bm |-> m.disk[b.s].b]
        ELSE IF m.disk[b.s] = ZeroSec THEN [m |-> m, bm |-> AllClear(m)]
        ELSE [m |-> Fail(m, "wild"), bm |-> AllClear(m)]

\* WriteAt of the bit vector
WriteBits(m, h, bm) ==
    LET b == ByteToSector(m, h, 0)
    IN  IF ~Ok(m) \/ FileLength(h) <= 0 THEN m
        ELSE IF FileLength(h) < FreeMapFileSize THEN Fail(m, "wild")
        ELSE WriteSector(b.m, b.s, BitsSec(bm))

\* PersistentBitmap::WriteBack
BitmapWriteBack(m, h, bm) == WriteBits(Logged(m, "bitmap"), h, bm)

(***************************************************************************)
(* Directory (directory.cc): a table is a function from slots to entries.  *)
(***************************************************************************)
\* a directory nests at most this deep before a sector repeats on the path
MaxNest == NumSectors

FindIndexFirstSlotOnly(table, name) ==
    IF table[0].inUse /\ table[0].name = name THEN 0 ELSE -1

\* Directory::FindIndex
FindIndex(table, name) ==
    LET hit == {i \in 0..(NumDirEntries - 1) : table[i].inUse /\ table[i].name = name}
    IN  IF hit = {} THEN -1 ELSE MinOf(hit)

\* Directory::Find; fuel counts the nesting left before the recursion is cut
RECURSIVE Find(_, _, _, _, _)
RECURSIVE FindLoop(_, _, _, _, _)
RECURSIVE FindRest(_, _, _, _, _)
Find(m, table, name, recursively, fuel) ==
    LET i == FindIndex(table, name)
    IN  IF i # -1 THEN [m |-> m, s |-> table[i].sector]
        ELSE IF recursively THEN FindLoop(m, table, name, 0, fuel)
        ELSE [m |-> m, s |-> -1]

\* the loop of Find over the slots from j on
FindLoop(m, table, name, j, fuel) ==
    IF j >= NumDirEntries \/ ~Ok(m) THEN [m |-> m, s |-> -1]
    ELSE IF table[j].inUse /\ table[j].type = "DIR"
    THEN IF fuel = 0 THEN [m |-> Fail(m, "wild"), s |-> -1]
         ELSE LET child == DirFetchFrom(OpenFile(m, table[j].sector).m,
                                        OpenFile(m, table[j].sector).h, EmptyTable)
              IN  FindRest(Find(child.m, child.t, name, TRUE, fuel - 1), table, name, j, fuel)
    ELSE FindLoop(m, table, name, j + 1, fuel)

FindRestFirstChildOnly(r, table, name, j, fuel) == r

\* the end of the loop body of Find: r is what the child directory gave
FindRest(r, table, name, j, fuel) ==
    IF r.s # -1 \/ ~Ok(r.m) THEN r
    ELSE FindLoop(r.m, table, name, j + 1, fuel)

AddWithoutLookup(table, name, newSector, fileType) ==
    LET free == {i \in 0..(NumDirEntries - 1) : ~table[i].inUse}
    IN  IF free = {} THEN [t |-> table, ret |-> FALSE]
        ELSE [t |-> [table EXCEPT ![MinOf(free)] =
                        [inUse |-> TRUE, name |-> name, sector |-> newSector,
                         type |-> fileType]],
              ret |-> TRUE]

\* Directory::Add
Add(table, name, newSector, fileType) ==
    LET free == {i \in 0..(NumDirEntries - 1) : ~table[i].inUse}
    IN  IF FindIndex(table, name) # -1 THEN [t |-> table, ret |-> FALSE]
        ELSE IF free = {} THEN [t |-> table, ret |-> FALSE]
        ELSE [t |-> [table EXCEPT ![MinOf(free)] =
                        [inUse |-> TRUE, name |-> name, sector |-> newSector,
                         type |-> fileType]],
              ret |-> TRUE]

\* Directory::Remove
DirRemove(table, name) ==
    LET i == FindIndex(table, name)
    IN  IF i = -1 THEN [t |-> table, ret |-> FALSE]
        ELSE [t |-> [table EXCEPT ![i].inUse = FALSE], ret |-> TRUE]

\* fileHdr->Deallocate(freeMap); freeMap->Clear(sector), for the header h
\* read from sector s
FreeHeader(m, bm, h, s) ==
    LET de == Deallocate(m, bm, h)
    IN  ClearBit(de.m, de.bm, s)

\* Directory::RemoveAll.  The function is declared bool and ends without a
\* return: trapping says whether the build stops there.
RECURSIVE RemoveAll(_, _, _, _, _, _)
RECURSIVE RemoveAllLoop(_, _, _, _, _, _)
RECURSIVE RemoveAllChild(_, _, _, _)
RECURSIVE RemoveAllFree(_, _, _, _, _)
RECURSIVE RemoveAllEnd(_, _, _)
RemoveAll(m, bm, table, h, trapping, fuel) ==
    RemoveAllEnd(RemoveAllLoop(m, bm, table, 0, trapping, fuel), h, trapping)

\* this->WriteBack(op), and the end of the function
RemoveAllEnd(r, h, trapping) ==
    [m |-> IF trapping THEN Fail(DirWriteBack(r.m, h, r.t), "wild")
           ELSE DirWriteBack(r.m, h, r.t),
     bm |-> r.bm, t |-> r.t]

\* the loop of RemoveAll over the slots from i on
RemoveAllLoop(m, bm, table, i, trapping, fuel) ==
    IF i >= NumDirEntries \/ ~Ok(m) THEN [m |-> m, bm |-> bm, t |-> table]
    ELSE IF ~table[i].inUse THEN RemoveAllLoop(m, bm, table, i + 1, trapping, fuel)
    ELSE IF table[i].type # "DIR"
    THEN RemoveAllFree([m |-> m, bm |-> bm], table, i, trapping, fuel)
    ELSE IF fuel = 0 THEN [m |-> Fail(m, "wild"), bm |-> bm, t |-> table]
    ELSE RemoveAllFree(RemoveAllChild(OpenFile(m, table[i].sector), bm, trapping, fuel),
                       table, i, trapping, fuel)

\* a directory entry: dir->FetchFrom(of); dir->RemoveAll(freeMap, of)
RemoveAllChild(of, bm, trapping, fuel) ==
    LET dir == DirFetchFrom(of.m, of.h, EmptyTable)
    IN  RemoveAll(dir.m, bm, dir.t, of.h, trapping, fuel - 1)

\* every entry in use: its header is read, the entry freed, its sectors cleared
RemoveAllFree(sub, table, i, trapping, fuel) ==
    LET fh == HdrFetchFrom(sub.m, table[i].sector)
        cl == FreeHeader(fh.m, sub.bm, fh.h, table[i].sector)
    IN  RemoveAllLoop(cl.m, cl.bm, [table EXCEPT ![i].inUse = FALSE], i + 1, trapping, fuel)

\* one line of output: level tabs, "[slot] name D" or "[slot] name F"
Line(level, i, e, tag) == [level |-> level, slot |-> i, name |-> e.name, type |-> tag]

\* lines printed first, then what the rest of the listing gave
ListJoin(lines, rest) == [m |-> rest.m, lines |-> lines \o rest.lines]

RECURSIVE List(_, _, _, _, _)
RECURSIVE ListLoop(_, _, _, _, _, _)
RECURSIVE ListChild(_, _, _, _, _, _, _)
ListTopLevelOnly(m, table, level, recursively, fuel) ==
    ListLoop(m, table, 0, level, FALSE, fuel)

\* Directory::List; fuel counts the nesting left before the recursion is cut
List(m, table, level, recursively, fuel) ==
    ListLoop(m, table, 0, level, recursively, fuel)

\* the loop of List over the slots from i on
ListLoop(m, table, i, level, recursively, fuel) ==
    IF i >= NumDirEntries \/ ~Ok(m) THEN [m |-> m, lines |-> <<>>]
    ELSE IF ~table[i].inUse THEN ListLoop(m, table, i + 1, level, recursively, fuel)
    ELSE IF table[i].type = "DIR"
    THEN IF ~recursively
         THEN ListJoin(<<Line(level, i, table[i], "D")>>,
                       ListLoop(m, table, i + 1, level, recursively, fuel))
         ELSE IF fuel = 0 THEN [m |-> Fail(m, "wild"), lines |-> <<>>]
         ELSE ListChild(OpenFile(m, table[i].sector), table, i, level, recursively, fuel,
                        <<Line(level, i, table[i], "D")>>)
    ELSE IF table[i].type = "FILE"
    THEN ListJoin(<<Line(level, i, table[i], "F")>>,
                  ListLoop(m, table, i + 1, level, recursively, fuel))
    ELSE ListLoop(m, table, i + 1, level, recursively, fuel)

\* a directory entry listed recursively: the child table is fetched and
\* listed one level deeper, then the loop goes on
ListChild(of, table, i, level, recursively, fuel, line) ==
    LET dir == DirFetchFrom(of.m, of.h, EmptyTable)
        sub == List(dir.m, dir.t, level + 1, recursively, fuel - 1)
    IN  ListJoin(line \o sub.lines,
                 ListLoop(sub.m, table, i + 1, level, recursively, fuel))

(***************************************************************************)
(* FileSystem (filesys.cc)                                                 *)
(***************************************************************************)
Names == {"a", "b"}
\* a path /n1/.../nk is the sequence of its components
Paths ==
    {<<x>> : x \in Names}
    \cup {<<x, y>> : x \in Names, y \in Names}
    \cup {<<x, y, z>> : x \in Names, y \in Names, z \in Names}
FileSizes == {0, SectorSize, SectorSize + 1}

\* the value of a NULL name
NoName == ""

\* FileSystem::FileSystem(format = TRUE): the two files are opened and the
\* bitmap and the empty root table written
FormatOpen(m, bm) ==
    LET f1 == OpenFile(m, FreeMapSector)
        f2 == OpenFile(f1.m, DirectorySector)
    IN  [m |-> DirWriteBack(BitmapWriteBack(f2.m, f1.h, bm), f2.h, EmptyTable),
         freeMapFile |-> f1.h, directoryFile |-> f2.h]

\* FileSystem::FileSystem(format = TRUE): the two headers are written
FormatHeaders(mapHdr, dirAl) ==
    FormatOpen(HdrWriteBack(HdrWriteBack(dirAl.m, mapHdr, FreeMapSector),
                            dirAl.h, DirectorySector),
               dirAl.bm)

\* FileSystem::FileSystem(format = TRUE): space for the directory file
FormatDirectory(mapAl) ==
    FormatHeaders(mapAl.h, Allocate(mapAl.m, mapAl.bm, NewHeader, DirectoryFileSize))

\* FileSystem::FileSystem(format = TRUE); freeMapFile and directoryFile stay
\* open, with the headers read here
Format ==
    FormatDirectory(
        Allocate(Mach([s \in 0..(NumSectors - 1) |-> ZeroSec], "none"),
                 Mark(Mark([s \in 0..(NumSectors - 1) |-> FALSE], FreeMapSector),
                      DirectorySector),
                 NewHeader, FreeMapFileSize))

freeMapFile == Format.freeMapFile
directoryFile == Format.directoryFile

\* FileSystem::GetFileName: what follows the last '/'
GetFileName(path) == path[Len(path)]

\* FileSystem::GetDirectoryName: the token before the last one, NULL if none
GetDirectoryName(path) == IF Len(path) = 1 THEN NoName ELSE path[Len(path) - 1]

RECURSIVE PathLen(_)
PathLen(path) == IF path = <<>> THEN 0 ELSE 1 + Len(Head(path)) + PathLen(Tail(path))

CheckFileLengthOneShort(path) ==
    IF Len(GetFileName(path)) >= 9 THEN FALSE
    ELSE IF PathLen(path) >= 255 THEN FALSE
    ELSE TRUE

\* FileSystem::CheckFileLength
CheckFileLength(path) ==
    IF Len(GetFileName(path)) > 9 THEN FALSE
    ELSE IF PathLen(path) > 255 THEN FALSE
    ELSE TRUE

\* the result of an operation: the value counts only if the program got there
Res(m, ret, note) == [m |-> m, ret |-> ret /\ Ok(m), note |-> IF Ok(m) THEN note ELSE "aborted"]

\* rootDirectory->FetchFrom(directoryFile); rootDirectory->Find(name, true)
RootFind(m, name) ==
    LET root == DirFetchFrom(m, directoryFile, EmptyTable)
    IN  Find(root.m, root.t, name, TRUE, MaxNest)

\* new OpenFile(sector), of the sector Find gave
OpenFound(fnd) == OpenFile(fnd.m, fnd.s)

CreateWriteBitmapFirst(al, m, s, table, h) ==
    IF ~al.ret THEN Res(al.m, FALSE, "no space")
    ELSE Res(DirWriteBack(HdrWriteBack(BitmapWriteBack(al.m, freeMapFile, al.bm), al.h, s),
                          h, table),
             TRUE, "created")

\* FileSystem::Create: everything worked, flush all changes back to disk
CreateWrite(al, m, s, table, h) ==
    IF ~al.ret THEN Res(al.m, FALSE, "no space")
    ELSE Res(BitmapWriteBack(DirWriteBack(HdrWriteBack(al.m, al.h, s), h, table),
                             freeMapFile, al.bm),
             TRUE, "created")

\* FileSystem::Create: a header sector, an entry, space for the data
CreateStore(h, table, fm, fileName, initialSize) ==
    LET fs == FindAndSet(fm.bm)
        ad == Add(table, fileName, fs.s, "FILE")
    IN  IF fs.s = -1 THEN Res(fm.m, FALSE, "no header sector")
        ELSE IF ~ad.ret THEN Res(fm.m, FALSE, "table full")
        ELSE CreateWrite(Allocate(fm.m, fs.bm, NewHeader, initialSize), fm.m, fs.s, ad.t, h)

\* FileSystem::Create in the directory whose file is of
CreateIn(of, fileName, initialSize) ==
    LET parent == DirFetchFrom(of.m, of.h, EmptyTable)
    IN  IF Find(parent.m, parent.t, fileName, FALSE, 0).s # -1
        THEN Res(parent.m, FALSE, "exists")
        ELSE CreateStore(of.h, parent.t, BitmapFetchFrom(parent.m, freeMapFile),
                         fileName, initialSize)

\* FileSystem::Create below the directory Find gave
CreateUnder(fnd, fileName, initialSize) ==
    IF fnd.s = -1 THEN Res(fnd.m, FALSE, "no parent")
    ELSE CreateIn(OpenFound(fnd), fileName, initialSize)

\* FileSystem::Create
Create(m, path, initialSize) ==
    IF ~CheckFileLength(path) THEN Res(m, FALSE, "too long")
    ELSE IF GetDirectoryName(path) = NoName
    THEN CreateIn([m |-> m, h |-> directoryFile], GetFileName(path), initialSize)
    ELSE CreateUnder(RootFind(m, GetDirectoryName(path)), GetFileName(path), initialSize)

\* FileSystem::CreateDirectory: the header and the empty table of the new
\* directory, its entry in the parent (the result of Add is not looked at),
\* the bitmap
CreateDirectoryIn(al, lfh, h, parent, fileName) ==
    LET fs == FindAndSet(al.bm)
        ad == Add(parent.t, fileName, fs.s, "DIR")
        nf == OpenFile(HdrWriteBack(parent.m, al.h, fs.s), fs.s)
    IN  Res(BitmapWriteBack(DirWriteBack(DirWriteBack(nf.m, nf.h, EmptyTable), h, ad.t),
                            lfh, fs.bm),
            TRUE, "done")

\* FileSystem::CreateDirectory below the directory Find gave
CreateDirectoryUnder(al, lfh, fnd, fileName) ==
    IF fnd.s = -1 THEN Res(fnd.m, FALSE, "invalid path")
    ELSE LET pf == OpenFound(fnd)
         IN  CreateDirectoryIn(al, lfh, pf.h, DirFetchFrom(pf.m, pf.h, EmptyTable), fileName)

\* FileSystem::CreateDirectory once the space is taken (the result of
\* Allocate is not looked at)
CreateDirectoryAt(al, lfh, path) ==
    IF GetDirectoryName(path) = NoName
    THEN CreateDirectoryIn(al, lfh, directoryFile,
                           DirFetchFrom(al.m, directoryFile, EmptyTable), GetFileName(path))
    ELSE CreateDirectoryUnder(al, lfh, RootFind(al.m, GetDirectoryName(path)),
                              GetFileName(path))

\* FileSystem::CreateDirectory with the bitmap read; the local freeMapFile is
\* opened anew
CreateDirectoryWith(fm, path) ==
    LET lf == OpenFile(fm.m, FreeMapSector)
    IN  CreateDirectoryAt(Allocate(lf.m, fm.bm, NewHeader, DirectoryFileSize), lf.h, path)

\* FileSystem::CreateDirectory
CreateDirectory(m, path) ==
    IF ~CheckFileLength(path) THEN Res(m, FALSE, "too long")
    ELSE CreateDirectoryWith(BitmapFetchFrom(m, freeMapFile), path)

\* FileSystem::Open: new OpenFile(sector) if the name was found, else NULL;
\* handle is the header sector of the open file, -1 for NULL
OpenResult(of, s) ==
    [m |-> of.m, ret |-> Ok(of.m) /\ s >= 0,
     note |-> IF ~Ok(of.m) THEN "aborted" ELSE IF s >= 0 THEN "opened" ELSE "not found",
     handle |-> IF Ok(of.m) THEN s ELSE -1]

\* FileSystem::Open once parentDirectory holds the table to look in
OpenIn(fnd) ==
    IF fnd.s >= 0 THEN OpenResult(OpenFile(fnd.m, fnd.s), fnd.s)
    ELSE OpenResult(fnd, fnd.s)

\* FileSystem::Open: parentDirectory->FetchFrom(parentDirectoryFile), into the
\* object that holds the root table, and the look-up of the final component
OpenUnder(pf, table, fileName) ==
    LET dir == DirFetchFrom(pf.m, pf.h, table)
    IN  OpenIn(Find(dir.m, dir.t, fileName, FALSE, 0))

\* FileSystem::Open with the root table fetched; the result of Find for the
\* directory name is not looked at before it is opened
OpenFrom(root, path) ==
    IF GetDirectoryName(path) = NoName
    THEN OpenIn(Find(root.m, root.t, GetFileName(path), FALSE, 0))
    ELSE OpenUnder(OpenFound(Find(root.m, root.t, GetDirectoryName(path), TRUE, MaxNest)),
                   root.t, GetFileName(path))

\* FileSystem::Open
Open(m, path) == OpenFrom(DirFetchFrom(m, directoryFile, EmptyTable), path)

\* FileSystem::List below the root: the directory Find gave is opened
\* (the result of Find is not looked at), fetched and listed
ListUnder(pf, recursively) ==
    LET dir == DirFetchFrom(pf.m, pf.h, EmptyTable)
    IN  [out |-> List(dir.m, dir.t, 0, recursively, MaxNest), table |-> dir.t]

\* FileSystem::List with the root table fetched; the path / is the empty
\* sequence
ListFrom(root, path, recursively) ==
    IF PathLen(path) > 1
    THEN ListUnder(OpenFound(Find(root.m, root.t, GetFileName(path), TRUE, MaxNest)),
                   recursively)
    ELSE [out |-> List(root.m, root.t, 0, recursively, MaxNest), table |-> root.t]

\* FileSystem::List
FileSystemList(m, path, recursively) ==
    ListFrom(DirFetchFrom(m, directoryFile, EmptyTable), path, recursively)

\* FileSystem::Remove: flush to disk
RemoveWrite(cl, table, h) ==
    Res(DirWriteBack(BitmapWriteBack(cl.m, freeMapFile, cl.bm), h, table), TRUE, "removed")

\* FileSystem::Remove, recursiveflag false, in the directory dir fetched from
\* the file with header h.  (Line 349 names "filename"; the final component
\* is meant.)
RemoveEntry(h, dir, fileName) ==
    LET s == Find(dir.m, dir.t, fileName, FALSE, 0).s
        fh == HdrFetchFrom(dir.m, s)
        fm == BitmapFetchFrom(fh.m, freeMapFile)
    IN  IF s = -1 THEN Res(dir.m, FALSE, "not found")
        ELSE RemoveWrite(FreeHeader(fm.m, fm.bm, fh.h, s), DirRemove(dir.t, fileName).t, h)

\* FileSystem::Remove, recursiveflag false: FetchFrom(of) into the object
\* that holds the root table
RemovePlainIn(of, table, fileName) ==
    RemoveEntry(of.h, DirFetchFrom(of.m, of.h, table), fileName)

\* FileSystem::Remove, recursiveflag false
RemovePlain(m, path) ==
    LET root == DirFetchFrom(m, directoryFile, EmptyTable)
    IN  IF GetDirectoryName(path) = NoName
        THEN RemoveEntry(directoryFile, root, GetFileName(path))
        ELSE RemovePlainIn(
                 OpenFound(Find(root.m, root.t, GetDirectoryName(path), TRUE, MaxNest)),
                 root.t, GetFileName(path))

\* FileSystem::Remove, recursiveflag true: the target's own sectors, then the
\* entry is taken out of the root table
RemoveTop(ra, rootTable, s, fileName) ==
    LET fh == HdrFetchFrom(ra.m, s)
    IN  RemoveWrite(FreeHeader(fh.m, ra.bm, fh.h, s), DirRemove(rootTable, fileName).t,
                    directoryFile)

\* FileSystem::Remove, recursiveflag true: the target is opened, fetched into
\* the object again holds, and emptied
RemoveTargetIn(again, rootTable, bm, s, fileName, trapping) ==
    LET of == OpenFile(again.m, s)
        dir == DirFetchFrom(of.m, of.h, again.t)
    IN  RemoveTop(RemoveAll(dir.m, bm, dir.t, of.h, trapping, MaxNest),
                  rootTable, s, fileName)

\* FileSystem::Remove, recursiveflag true, once Find has looked for the name.
\* of = new OpenFile(directory->Find(dirName,true)) is opened and never used.
RemoveSubtree(table, bm, sec, path, trapping) ==
    LET dirtemp == DirFetchFrom(sec.m, directoryFile, EmptyTable)
    IN  IF sec.s = -1 THEN Res(sec.m, FALSE, "not found")
        ELSE IF GetDirectoryName(path) = NoName
        THEN RemoveTargetIn([m |-> dirtemp.m, t |-> table], dirtemp.t, bm, sec.s,
                            GetFileName(path), trapping)
        ELSE RemoveTargetIn(
                 DirFetchFrom(
                     OpenFound(Find(dirtemp.m, table, GetDirectoryName(path), TRUE, MaxNest)).m,
                     directoryFile, table),
                 dirtemp.t, bm, sec.s, GetFileName(path), trapping)

\* FileSystem::Remove, recursiveflag true
RemoveRecursive(m, path, trapping) ==
    LET root == DirFetchFrom(m, directoryFile, EmptyTable)
        fm == BitmapFetchFrom(root.m, freeMapFile)
    IN  RemoveSubtree(root.t, fm.bm, Find(fm.m, root.t, GetFileName(path), TRUE, MaxNest),
                      path, trapping)

\* FileSystem::Remove
Remove(m, path, recursiveflag, trapping) ==
    IF recursiveflag THEN RemoveRecursive(m, path, trapping) ELSE RemovePlain(m, path)

(***************************************************************************)
(* The file system after formatting, under Create, CreateDirectory and     *)
(* Remove calls made one at a time.                                        *)
(***************************************************************************)
Init ==
    /\ disk = Format.m.disk
    /\ fault = Format.m.fault
    /\ last = NoLast
    /\ nops = 0
    /\ fileDescriptorTable = NoFiles
    /\ dirTable = EmptyTable
    /\ threads = NoThreads
    /\ freeMap = <<>>
    /\ hdr = NewHeader
    /\ phase = "fs"

Ready == phase = "fs" /\ fault = "none" /\ nops < MaxOps

\* One call has returned r (or stopped the program).  A run records at most
\* one call in last, with the disk it started from, and ends there; the calls
\* before it only build the state.
Call(r, op, p, size, rec) ==
    /\ disk' = r.m.disk
    /\ fault' = r.m.fault
    /\ nops' = nops + 1
    /\ \E observed \in BOOLEAN :
         /\ last' = IF observed
                    THEN [op |-> op, path |-> p, size |-> size, rec |-> rec,
                          ret |-> r.ret, note |-> r.note, before |-> disk,
                          log |-> r.m.log]
                    ELSE NoLast
         /\ phase' = IF observed THEN "observed" ELSE "fs"
    /\ UNCHANGED <<freeMap, hdr, fileDescriptorTable, dirTable, threads>>

DoCreate ==
    /\ Ready
    /\ \E p \in Paths, size \in FileSizes :
         Call(Create(Mach(disk, fault), p, size), "Create", p, size, FALSE)

DoCreateDirectory ==
    /\ Ready
    /\ \E p \in Paths :
         Call(CreateDirectory(Mach(disk, fault), p), "CreateDirectory", p, 0, FALSE)

DoRemove ==
    /\ Ready
    /\ \E p \in Paths, rec \in BOOLEAN, trapping \in BOOLEAN :
         /\ trapping => rec
         /\ Call(Remove(Mach(disk, fault), p, rec, trapping), "Remove", p, 0, rec)

\* Open has returned r (or stopped the program); it is the call the run records
Opened(r, p) ==
    /\ disk' = r.m.disk
    /\ fault' = r.m.fault
    /\ nops' = nops + 1
    /\ last' = [op |-> "Open", path |-> p, ret |-> r.ret, note |-> r.note,
                before |-> disk, log |-> r.m.log, handle |-> r.handle]
    /\ phase' = "observed"
    /\ UNCHANGED <<freeMap, hdr, fileDescriptorTable, dirTable, threads>>

DoOpen ==
    /\ Ready
    /\ \E p \in Paths : Opened(Open(Mach(disk, fault), p), p)

\* List has printed r.out.lines (or stopped the program); it is the call the
\* run records, with the table it listed
Listed(r, p, rec) ==
    /\ disk' = r.out.m.disk
    /\ fault' = r.out.m.fault
    /\ nops' = nops + 1
    /\ last' = [op |-> "List", path |-> p, rec |-> rec, lines |-> r.out.lines,
                table |-> r.table, before |-> disk, log |-> r.out.m.log]
    /\ phase' = "observed"
    /\ UNCHANGED <<freeMap, hdr, fileDescriptorTable, dirTable, threads>>

DoList ==
    /\ Ready
    /\ \E p \in Paths \cup {<<>>}, rec \in BOOLEAN :
         Listed(FileSystemList(Mach(disk, fault), p, rec), p, rec)

Next == DoCreate \/ DoCreateDirectory \/ DoRemove \/ DoOpen \/ DoList

Spec == Init /\ [][Next]_vars

(***************************************************************************)
(* Create and CreateDirectory with names and paths at and over the length  *)
(* limits.                                                                 *)
(***************************************************************************)
RECURSIVE Stretch(_)
\* a name of n bytes
Stretch(n) ==
    IF n = 0 THEN ""
    ELSE IF n % 2 = 1 THEN "a" \o Stretch(n - 1)
    ELSE LET half == Stretch(n \div 2) IN half \o half

\* /a, names of 9 and 10 bytes in the root and below a, paths of 255 and 256
\* bytes ending in a name of 9 bytes, a path of 255 bytes ending in a name of
\* 10 bytes, a long segment before a short name
LongPaths ==
    {<<"a">>, <<Stretch(9)>>, <<Stretch(10)>>,
     <<"a", Stretch(9)>>, <<"a", Stretch(10)>>,
     <<Stretch(244), Stretch(9)>>, <<Stretch(245), Stretch(9)>>,
     <<Stretch(243), Stretch(10)>>, <<Stretch(10), "a">>}

LenReady == phase = "fs" /\ fault = "none" /\ nops < LenOps

LenCreate ==
    /\ LenReady
    /\ \E p \in LongPaths, size \in FileSizes :
         Call(Create(Mach(disk, fault), p, size), "Create", p, size, FALSE)

LenCreateDirectory ==
    /\ LenReady
    /\ \E p \in LongPaths :
         Call(CreateDirectory(Mach(disk, fault), p), "CreateDirectory", p, 0, FALSE)

NextLen == LenCreate \/ LenCreateDirectory

SpecLen == Init /\ [][NextLen]_vars

(***************************************************************************)
(* Directory::Add and Directory::Remove on one table in memory, with names *)
(* within FileNameMaxLen.                                                  *)
(***************************************************************************)
DirNames == {"a", "b", "c", "d"}
DirSectorsGiven == {6, 7}

InitDir ==
    /\ disk = Format.m.disk
    /\ fault = Format.m.fault
    /\ last = NoLast
    /\ nops = 0
    /\ freeMap = <<>>
    /\ hdr = NewHeader
    /\ phase = "dir"
    /\ fileDescriptorTable = NoFiles
    /\ dirTable = EmptyTable
    /\ threads = NoThreads

DirReady == phase = "dir" /\ nops < DirOps

DoAdd ==
    /\ DirReady
    /\ \E name \in DirNames, newSector \in DirSectorsGiven, fileType \in {"FILE", "DIR"} :
         /\ dirTable' = Add(dirTable, name, newSector, fileType).t
         /\ last' = [op |-> "Add", name |-> name, sector |-> newSector, type |-> fileType,
                     ret |-> Add(dirTable, name, newSector, fileType).ret,
                     before |-> dirTable]
    /\ nops' = nops + 1
    /\ UNCHANGED <<disk, fault, freeMap, hdr, phase, fileDescriptorTable, threads>>

DoDirRemove ==
    /\ DirReady
    /\ \E name \in DirNames :
         /\ dirTable' = DirRemove(dirTable, name).t
         /\ last' = [op |-> "Remove", name |-> name,
                     ret |-> DirRemove(dirTable, name).ret, before |-> dirTable]
    /\ nops' = nops + 1
    /\ UNCHANGED <<disk, fault, freeMap, hdr, phase, fileDescriptorTable, threads>>

NextDir == DoAdd \/ DoDirRemove

SpecDir == InitDir /\ [][NextDir]_vars

(***************************************************************************)
(* Directory::Find on the root table and on the tables of the directories  *)
(* of the root, after calls that build a tree out of three names.          *)
(***************************************************************************)
FindNames == {"a", "b", "c"}
FindPaths == {<<"a">>, <<"b">>, <<"c">>, <<"a", "b">>, <<"a", "c">>, <<"b", "c">>}

FindReady == phase = "fs" /\ fault = "none" /\ nops < FindOps

\* a call that builds the tree has returned r
Grown(r) ==
    /\ disk' = r.m.disk
    /\ fault' = r.m.fault
    /\ nops' = nops + 1
    /\ UNCHANGED <<last, phase, freeMap, hdr, fileDescriptorTable, dirTable, threads>>

FindCreate ==
    /\ FindReady
    /\ \E p \in FindPaths : Grown(Create(Mach(disk, fault), p, 0))

FindCreateDirectory ==
    /\ FindReady
    /\ \E p \in FindPaths : Grown(CreateDirectory(Mach(disk, fault), p))

FindRemove ==
    /\ FindReady
    /\ \E p \in FindPaths : Grown(Remove(Mach(disk, fault), p, FALSE, FALSE))

\* Find has returned r on the table dir.t
Found(r, dir, name, recursively) ==
    /\ disk' = r.m.disk
    /\ fault' = r.m.fault
    /\ nops' = nops + 1
    /\ last' = [op |-> "Find", name |-> name, rec |-> recursively, sector |-> r.s,
                table |-> dir.t, before |-> disk, log |-> r.m.log]
    /\ phase' = "observed"
    /\ UNCHANGED <<freeMap, hdr, fileDescriptorTable, dirTable, threads>>

\* Find on the table fetched from the file with header h
FindIn(dir, name, recursively) ==
    Found(Find(dir.m, dir.t, name, recursively, MaxNest), dir, name, recursively)

DoFind ==
    /\ FindReady
    /\ \E name \in FindNames, recursively \in BOOLEAN, i \in -1..(NumDirEntries - 1) :
         LET root == DirFetchFrom(Mach(disk, fault), directoryFile, EmptyTable).t
         IN  IF i = -1
             THEN FindIn(DirFetchFrom(Mach(disk, fault), directoryFile, EmptyTable),
                         name, recursively)
             ELSE /\ root[i].inUse
                  /\ root[i].type = "DIR"
                  /\ FindIn(DirFetchFrom(OpenFile(Mach(disk, fault), root[i].sector).m,
                                         OpenFile(Mach(disk, fault), root[i].sector).h,
                                         EmptyTable),
                            name, recursively)

NextFind == FindCreate \/ FindCreateDirectory \/ FindRemove \/ DoFind

SpecFind == Init /\ [][NextFind]_vars

(***************************************************************************)
(* The descriptor table (ksyscall.h, filesys.cc): SysOpen, Close, Read and *)
(* Write on a disk that holds the one empty file /a.  A slot holds the     *)
(* header sector of the open file, or NULL.  last.open is the set of ids   *)
(* the caller holds: returned by SysOpen and not closed since.             *)
(***************************************************************************)
\* SysOpen: the slot search and the store, file being what Open returned
SysOpenStore(file, table) ==
    LET free == {i \in 0..(FdSlots - 1) : table[i] = NULL}
    IN  IF ~Ok(file.m) THEN [m |-> file.m, table |-> table, ret |-> -1, file |-> NULL]
        ELSE IF free # {}
        THEN [m |-> file.m, table |-> [table EXCEPT ![MinOf(free)] = file.handle],
              ret |-> MinOf(free) + 1, file |-> file.handle]
        ELSE [m |-> file.m, table |-> table, ret |-> -1, file |-> file.handle]

\* SysOpen
SysOpen(m, table, path) == SysOpenStore(Open(m, path), table)

\* the test that opens Write, Read and Close; the slot is read before the
\* index is compared with the bounds, and either way the test is true for an
\* index outside the table
NoDescriptor(table, id) ==
    IF id - 1 < 0 \/ id - 1 >= FdSlots THEN TRUE ELSE table[id - 1] = NULL

\* FileSystem::Close: the statement after the test compares and stores nothing
Close(table, id) ==
    IF NoDescriptor(table, id) THEN [table |-> table, ret |-> 0]
    ELSE [table |-> table, ret |-> 1]

\* OpenFile::Read and OpenFile::Write move at most the bytes between the
\* position and the end of the file
Transfer(m, s, len) == Min2(len, IF FileLength(HdrFetchFrom(m, s).h) > 0
                                 THEN FileLength(HdrFetchFrom(m, s).h) ELSE 0)

\* FileSystem::Read
Read(m, table, len, id) ==
    IF NoDescriptor(table, id) THEN -1 ELSE Transfer(m, table[id - 1], len)

\* FileSystem::Write
Write(m, table, len, id) ==
    IF NoDescriptor(table, id) THEN -1 ELSE Transfer(m, table[id - 1], len)

FdPaths == {<<"a">>, <<"b">>}
FdIds == {0, 1, 2, FdSlots, FdSlots + 1}
FdDisk == Create(Format.m, <<"a">>, 0).m.disk

InitFd ==
    /\ disk = FdDisk
    /\ fault = "none"
    /\ last = [op |-> "none", open |-> {}]
    /\ nops = 0
    /\ freeMap = <<>>
    /\ hdr = NewHeader
    /\ phase = "fd"
    /\ fileDescriptorTable = NoFiles
    /\ dirTable = EmptyTable
    /\ threads = NoThreads

FdReady == phase = "fd" /\ fault = "none" /\ nops < FdOps

SysOpened(r, p) ==
    /\ disk' = r.m.disk
    /\ fault' = r.m.fault
    /\ fileDescriptorTable' = r.table
    /\ last' = [op |-> "SysOpen", path |-> p, ret |-> r.ret, file |-> r.file,
                table0 |-> fileDescriptorTable, open0 |-> last.open,
                open |-> IF r.ret > 0 THEN last.open \cup {r.ret} ELSE last.open]

DoSysOpen ==
    /\ FdReady
    /\ \E p \in FdPaths : SysOpened(SysOpen(Mach(disk, fault), fileDescriptorTable, p), p)
    /\ nops' = nops + 1
    /\ UNCHANGED <<freeMap, hdr, phase, dirTable, threads>>

Closed(r, id) ==
    /\ fileDescriptorTable' = r.table
    /\ last' = [op |-> "Close", id |-> id, ret |-> r.ret, open0 |-> last.open,
                open |-> IF r.ret = 1 THEN last.open \ {id} ELSE last.open]

DoClose ==
    /\ FdReady
    /\ \E id \in FdIds : Closed(Close(fileDescriptorTable, id), id)
    /\ nops' = nops + 1
    /\ UNCHANGED <<disk, fault, freeMap, hdr, phase, dirTable, threads>>

DoRead ==
    /\ FdReady
    /\ \E id \in FdIds, len \in {0, SectorSize} :
         last' = [op |-> "Read", id |-> id, open0 |-> last.open, open |-> last.open,
                  ret |-> Read(Mach(disk, fault), fileDescriptorTable, len, id)]
    /\ nops' = nops + 1
    /\ UNCHANGED <<disk, fault, freeMap, hdr, phase, fileDescriptorTable, dirTable, threads>>

DoWrite ==
    /\ FdReady
    /\ \E id \in FdIds, len \in {0, SectorSize} :
         last' = [op |-> "Write", id |-> id, open0 |-> last.open, open |-> last.open,
                  ret |-> Write(Mach(disk, fault), fileDescriptorTable, len, id)]
    /\ nops' = nops + 1
    /\ UNCHANGED <<disk, fault, freeMap, hdr, phase, fileDescriptorTable, dirTable, threads>>

NextFd == DoSysOpen \/ DoClose \/ DoRead \/ DoWrite

SpecFd == InitFd /\ [][NextFd]_vars

(***************************************************************************)
(* A subtree and its recursive removal: a directory top is made, files and *)
(* directories are made below it by calls that report success, and top is  *)
(* removed recursively.  last keeps the number of clear bits of the        *)
(* persisted bitmap from just before top was made.                         *)
(***************************************************************************)
ClearOnDisk(d) == NumClear(BitmapFetchFrom(Mach(d, "none"), freeMapFile).bm)

IsBelow(top, p) == Len(p) > Len(top) /\ SubSeq(p, 1, Len(top)) = top

InitTree ==
    /\ disk = Format.m.disk
    /\ fault = Format.m.fault
    /\ last = NoLast
    /\ nops = 0
    /\ fileDescriptorTable = NoFiles
    /\ dirTable = EmptyTable
    /\ threads = NoThreads
    /\ freeMap = <<>>
    /\ hdr = NewHeader
    /\ phase = "bare"

Built(r) ==
    /\ r.m.fault = "none"
    /\ r.ret
    /\ disk' = r.m.disk
    /\ fault' = r.m.fault
    /\ nops' = nops + 1
    /\ phase' = "tree"
    /\ UNCHANGED <<freeMap, hdr, fileDescriptorTable, dirTable, threads>>

TreeTop ==
    /\ phase = "bare"
    /\ \E top \in {p \in Paths : Len(p) = 1} :
         /\ Built(CreateDirectory(Mach(disk, fault), top))
         /\ last' = [op |-> "Tree", top |-> top, clear0 |-> ClearOnDisk(disk),
                     ret |-> FALSE, before |-> disk]

TreeCreate ==
    /\ phase = "tree"
    /\ nops < MaxOps - 1
    /\ \E p \in Paths, size \in FileSizes :
         /\ IsBelow(last.top, p)
         /\ Built(Create(Mach(disk, fault), p, size))
    /\ UNCHANGED last

TreeCreateDirectory ==
    /\ phase = "tree"
    /\ nops < MaxOps - 1
    /\ \E p \in Paths :
         /\ IsBelow(last.top, p)
         /\ Built(CreateDirectory(Mach(disk, fault), p))
    /\ UNCHANGED last

Felled(r) ==
    /\ disk' = r.m.disk
    /\ fault' = r.m.fault
    /\ last' = [last EXCEPT !.ret = r.ret]
    /\ nops' = nops + 1
    /\ phase' = "felled"
    /\ UNCHANGED <<freeMap, hdr, fileDescriptorTable, dirTable, threads>>

TreeRemove ==
    /\ phase = "tree"
    /\ nops < MaxOps
    /\ \E trapping \in BOOLEAN :
         Felled(Remove(Mach(disk, fault), last.top, TRUE, trapping))

NextTree == TreeTop \/ TreeCreate \/ TreeCreateDirectory \/ TreeRemove

SpecTree == InitTree /\ [][NextTree]_vars

(***************************************************************************)
(* A plain file made and removed again: calls that report success build a  *)
(* tree of empty files and directories, Create makes one more file of any  *)
(* size, and the non-recursive Remove is called on the same path.  last    *)
(* keeps the disk from just before that Create.                            *)
(***************************************************************************)
PairSizes == {n * SectorSize : n \in 0..(NumSectors \div 2)} \cup FileSizes

InitPair ==
    /\ disk = Format.m.disk
    /\ fault = Format.m.fault
    /\ last = NoLast
    /\ nops = 0
    /\ fileDescriptorTable = NoFiles
    /\ dirTable = EmptyTable
    /\ threads = NoThreads
    /\ freeMap = <<>>
    /\ hdr = NewHeader
    /\ phase = "grow"

PairGrown(r) ==
    /\ phase = "grow"
    /\ nops < PairOps
    /\ r.m.fault = "none"
    /\ r.ret
    /\ disk' = r.m.disk
    /\ nops' = nops + 1
    /\ UNCHANGED <<fault, last, phase, freeMap, hdr, fileDescriptorTable, dirTable, threads>>

PairCreate == \E p \in Paths : PairGrown(Create(Mach(disk, fault), p, 0))

PairCreateDirectory == \E p \in Paths : PairGrown(CreateDirectory(Mach(disk, fault), p))

\* the Create of the pair, when it returns true
PairMake ==
    /\ phase = "grow"
    /\ \E p \in Paths, size \in PairSizes :
         LET r == Create(Mach(disk, fault), p, size)
         IN  /\ r.m.fault = "none"
             /\ r.ret
             /\ disk' = r.m.disk
             /\ last' = [op |-> "Pair", path |-> p, size |-> size, ret |-> FALSE,
                         before |-> disk]
    /\ phase' = "made"
    /\ nops' = nops + 1
    /\ UNCHANGED <<fault, freeMap, hdr, fileDescriptorTable, dirTable, threads>>

\* Remove has returned r (or stopped the program)
PairRemoved(r) ==
    /\ disk' = r.m.disk
    /\ fault' = r.m.fault
    /\ last' = [last EXCEPT !.ret = r.ret]
    /\ phase' = "unmade"
    /\ nops' = nops + 1
    /\ UNCHANGED <<freeMap, hdr, fileDescriptorTable, dirTable, threads>>

\* the non-recursive Remove of the pair, on the path of the Create
PairRemove ==
    /\ phase = "made"
    /\ \E p \in Paths, recursiveflag \in {FALSE} :
         /\ p = last.path
         /\ PairRemoved(Remove(Mach(disk, fault), p, recursiveflag, FALSE))

NextPair == PairCreate \/ PairCreateDirectory \/ PairMake \/ PairRemove

SpecPair == InitPair /\ [][NextPair]_vars

(***************************************************************************)
(* Two threads, each inside one Create of a file in the root.  A thread    *)
(* yields where it waits for the disk, so the steps of the two interleave  *)
(* between the disk operations of Create: the fetch of the parent table,   *)
(* the load of the bitmap, Allocate with the writes of its index blocks,   *)
(* and the three write-backs.  table, bm and h are the thread's own        *)
(* Directory, PersistentBitmap and FileHeader objects; got is the set of   *)
(* sectors its FindAndSet calls returned.                                  *)
(***************************************************************************)
Threads == {1, 2}
RaceNames == <<"a", "b">>
RaceSizes == {0, SectorSize}

Idle(name, size) ==
    [pc |-> "start", name |-> name, size |-> size, table |-> EmptyTable, bm |-> <<>>,
     h |-> NewHeader, sector |-> -1, got |-> {}, ret |-> FALSE]

InitRace ==
    /\ disk = Format.m.disk
    /\ fault = Format.m.fault
    /\ last = NoLast
    /\ nops = 0
    /\ fileDescriptorTable = NoFiles
    /\ dirTable = EmptyTable
    /\ freeMap = <<>>
    /\ hdr = NewHeader
    /\ phase = "race"
    /\ threads \in {[t \in Threads |-> Idle(RaceNames[t], sz[t])] : sz \in [Threads -> RaceSizes]}

\* thread t has made a step that left the machine m and its own state th
Stepped(t, m, th) ==
    /\ disk' = m.disk
    /\ fault' = m.fault
    /\ threads' = [threads EXCEPT ![t] = th]
    /\ nops' = nops + 1
    /\ UNCHANGED <<last, freeMap, hdr, phase, fileDescriptorTable, dirTable>>

At(t, pc) == phase = "race" /\ fault = "none" /\ threads[t].pc = pc

\* parentDirectory->FetchFrom(parentDirectoryFile), and the test for the name
RaceFetch(t) ==
    /\ At(t, "start")
    /\ LET th == threads[t]
           parent == DirFetchFrom(Mach(disk, fault), directoryFile, EmptyTable)
       IN  Stepped(t, parent.m,
                   IF Find(parent.m, parent.t, th.name, FALSE, 0).s # -1
                   THEN [th EXCEPT !.pc = "done", !.table = parent.t]
                   ELSE [th EXCEPT !.pc = "fetched", !.table = parent.t])

\* new PersistentBitmap(freeMapFile, NumSectors), FindAndSet and Add
RaceBitmap(t) ==
    /\ At(t, "fetched")
    /\ LET th == threads[t]
           fm == BitmapFetchFrom(Mach(disk, fault), freeMapFile)
           fs == FindAndSet(fm.bm)
           ad == Add(th.table, th.name, fs.s, "FILE")
       IN  Stepped(t, fm.m,
                   IF fs.s = -1 \/ ~ad.ret
                   THEN [th EXCEPT !.pc = "done"]
                   ELSE [th EXCEPT !.pc = "mapped", !.bm = fs.bm, !.table = ad.t,
                                   !.sector = fs.s, !.got = {fs.s}])

\* hdr->Allocate(freeMap, initialSize)
RaceAllocate(t) ==
    /\ At(t, "mapped")
    /\ LET th == threads[t]
           al == Allocate(Mach(disk, fault), th.bm, NewHeader, th.size)
       IN  Stepped(t, al.m,
                   IF ~al.ret
                   THEN [th EXCEPT !.pc = "done"]
                   ELSE [th EXCEPT !.pc = "allocated", !.h = al.h, !.bm = al.bm,
                                   !.got = th.got \cup {x \in DOMAIN al.bm :
                                                           al.bm[x] /\ ~th.bm[x]}])

\* hdr->WriteBack(sector)
RaceWriteHeader(t) ==
    /\ At(t, "allocated")
    /\ Stepped(t, HdrWriteBack(Mach(disk, fault), threads[t].h, threads[t].sector),
               [threads[t] EXCEPT !.pc = "header written"])

\* parentDirectory->WriteBack(parentDirectoryFile)
RaceWriteTable(t) ==
    /\ At(t, "header written")
    /\ Stepped(t, DirWriteBack(Mach(disk, fault), directoryFile, threads[t].table),
               [threads[t] EXCEPT !.pc = "table written"])

\* freeMap->WriteBack(freeMapFile), and the return of TRUE
RaceWriteBitmap(t) ==
    /\ At(t, "table written")
    /\ Stepped(t, BitmapWriteBack(Mach(disk, fault), freeMapFile, threads[t].bm),
               [threads[t] EXCEPT !.pc = "done", !.ret = TRUE])

NextRace ==
    \E t \in Threads :
        \/ RaceFetch(t)
        \/ RaceBitmap(t)
        \/ RaceAllocate(t)
        \/ RaceWriteHeader(t)
        \/ RaceWriteTable(t)
        \/ RaceWriteBitmap(t)

SpecRace == InitRace /\ [][NextRace]_vars

(***************************************************************************)
(* What is on the disk, read the way the claims speak of it: the persisted *)
(* bitmap, the table of a directory, the directory a path names when every *)
(* segment is followed from the root, the sectors a file owns.             *)
(***************************************************************************)
Here(d) == Mach(d, "none")

PersistedBitmap(d) == BitmapFetchFrom(Here(d), freeMapFile).bm

\* the header stored in sector s
HeaderAt(d, s) == HdrFetchFrom(Here(d), s).h

\* the table of the directory whose header is h
TableOf(d, h) == DirFetchFrom(Here(d), h, EmptyTable).t

InUseNames(t) == {t[i].name : i \in {k \in 0..(NumDirEntries - 1) : t[k].inUse}}
EntryNamed(t, name) ==
    CHOOSE i \in 0..(NumDirEntries - 1) : t[i].inUse /\ t[i].name = name
HasFreeSlot(t) == \E i \in 0..(NumDirEntries - 1) : ~t[i].inUse

NoDir == [found |-> FALSE, h |-> NewHeader, s |-> -1]

\* the directory reached by following every segment of dirs from the
\* directory with header h (stored in sector s); each segment must be an
\* in-use entry of type directory
RECURSIVE Walk(_, _, _, _)
Walk(d, h, s, dirs) ==
    IF dirs = <<>> THEN [found |-> TRUE, h |-> h, s |-> s]
    ELSE LET t == TableOf(d, h)
             hit == {i \in 0..(NumDirEntries - 1) :
                        t[i].inUse /\ t[i].name = Head(dirs) /\ t[i].type = "DIR"}
         IN  IF hit = {} THEN NoDir
             ELSE LET e == t[MinOf(hit)]
                  IN  Walk(d, HeaderAt(d, e.sector), e.sector, Tail(dirs))

Prefix(path) == SubSeq(path, 1, Len(path) - 1)

\* the parent directory of path, every segment followed from the root
TrueParent(d, path) == Walk(d, directoryFile, DirectorySector, Prefix(path))

\* the parent directory Create, CreateDirectory and Remove work on
CodeParent(d, path) ==
    LET root == DirFetchFrom(Here(d), directoryFile, EmptyTable)
        fnd == Find(root.m, root.t, GetDirectoryName(path), TRUE, MaxNest)
    IN  IF Len(path) = 1 THEN [found |-> TRUE, h |-> directoryFile, s |-> DirectorySector]
        ELSE IF fnd.s = -1 \/ ~Ok(fnd.m) \/ fnd.s \notin DOMAIN d THEN NoDir
        ELSE [found |-> TRUE, h |-> HeaderAt(d, fnd.s), s |-> fnd.s]

\* the header sector, the index-block sectors and the data sectors of the file
\* whose header is in sector s
FileSectors(d, s) ==
    LET h == HeaderAt(d, s)
        blocks == {h.dataSectors[i] :
                     i \in {k \in 0..(NumDirect - 1) : k < divRoundUp(h.numSectors, IndexSlots)}}
        slots(b) == IF b \in DOMAIN d /\ d[b].kind = "ints"
                    THEN {d[b].v[j] : j \in 0..(IndexSlots - 1)} ELSE {}
    IN  IF s \notin DOMAIN d \/ d[s].kind # "ints" THEN {s} \cap DOMAIN d
        ELSE ({s} \cup blocks \cup UNION {slots(b) : b \in blocks}) \cap DOMAIN d

\* the in-use entries of the tables reachable from the directory with header h
RECURSIVE EntriesBelow(_, _, _)
EntriesBelow(d, h, fuel) ==
    LET t == TableOf(d, h)
        used == {t[i] : i \in {k \in 0..(NumDirEntries - 1) : t[k].inUse}}
    IN  used \cup
        (IF fuel = 0 THEN {}
         ELSE UNION {EntriesBelow(d, HeaderAt(d, e.sector), fuel - 1) :
                        e \in {x \in used : x.type = "DIR"}})

LiveEntries(d) == EntriesBelow(d, directoryFile, MaxNest)

\* the sectors of the two files made by formatting and of every file and
\* directory reachable from the root table
OwnedSectors(d) ==
    FileSectors(d, FreeMapSector) \cup FileSectors(d, DirectorySector)
    \cup UNION {FileSectors(d, e.sector) : e \in LiveEntries(d)}

\* the sectors Create(path, size) needs
SectorsNeeded(size) ==
    1 + divRoundUp(divRoundUp(size, SectorSize), IndexSlots) + divRoundUp(size, SectorSize)

Observed(op) == phase = "observed" /\ last.op = op
Returned == fault = "none"

(***************************************************************************)
(* Claims                                                                  *)
(***************************************************************************)

\* C1: after formatting and after any sequence of Create, CreateDirectory and
\* Remove calls, a bit of the persisted bitmap is set if and only if its
\* sector is reserved or belongs to a file or directory reachable from the
\* root table.
C1_BitmapIsReachable ==
    (phase \in {"fs", "observed"} /\ Returned) =>
        \A i \in 0..(NumSectors - 1) : PersistedBitmap(disk)[i] <=> i \in OwnedSectors(disk)

\* C2: after recursive Remove(path) returns true, the final component of path
\* is no longer in use in the table of the target's parent directory, and no
\* in-use entry reachable from the root names the target's header sector.
C2_RecursiveRemoveUnlinks ==
    (Observed("Remove") /\ last.rec /\ Returned /\ last.ret
        /\ TrueParent(last.before, last.path).found
        /\ GetFileName(last.path) \in
              InUseNames(TableOf(last.before, TrueParent(last.before, last.path).h))) =>
        LET par == TrueParent(last.before, last.path)
            old == TableOf(last.before, par.h)
            target == old[EntryNamed(old, GetFileName(last.path))].sector
        IN  /\ GetFileName(last.path) \notin InUseNames(TableOf(disk, par.h))
            /\ \A e \in LiveEntries(disk) : e.sector # target

\* C3: after recursive Remove of a directory returns true, every sector taken
\* for the subtree is clear again: the persisted bitmap has as many clear
\* bits as it had just before the subtree was made.
C3_RecursiveRemoveFreesSubtree ==
    (phase = "felled" /\ Returned /\ last.ret) =>
        ClearOnDisk(disk) = last.clear0

\* C4: when the bitmap has fewer clear sectors than Create(path, size) needs
\* in all, Create returns false and the persisted bitmap and parent table are
\* unchanged.
C4_CreateFailsWhenFull ==
    (Observed("Create")
        /\ NumClear(PersistedBitmap(last.before)) < SectorsNeeded(last.size)) =>
        /\ Returned
        /\ ~last.ret
        /\ PersistedBitmap(disk) = PersistedBitmap(last.before)
        /\ LET par == CodeParent(last.before, last.path)
           IN  par.found => TableOf(disk, par.h) = TableOf(last.before, par.h)

\* C5: Create of a path whose final component is an in-use entry of the
\* resolved parent directory returns false and leaves the persisted bitmap
\* and the persisted parent table unchanged, for every size.
C5_CreateExistingFails ==
    (Observed("Create")
        /\ CodeParent(last.before, last.path).found
        /\ GetFileName(last.path) \in
              InUseNames(TableOf(last.before, CodeParent(last.before, last.path).h))) =>
        /\ Returned
        /\ ~last.ret
        /\ PersistedBitmap(disk) = PersistedBitmap(last.before)
        /\ TableOf(disk, CodeParent(last.before, last.path).h)
              = TableOf(last.before, CodeParent(last.before, last.path).h)

\* C5 witness: a Create of an existing name, with a size that needs data
\* sectors, has been refused
C5_Witness ==
    /\ Observed("Create")
    /\ last.note = "exists"
    /\ last.size > 0
    /\ Len(last.path) = 2

\* C6: Create of /a/b/c returns true when a is a directory in the root, b a
\* directory in a, c is not in b and there is space; Create of /a/missing/c
\* with no entry named missing anywhere returns false and changes neither the
\* bitmap nor any directory table.
C6_CreateInNestedDirectory ==
    (Observed("Create") /\ Len(last.path) = 3) =>
        LET par == TrueParent(last.before, last.path)
            t == TableOf(last.before, par.h)
            anywhere == {e.name : e \in LiveEntries(last.before)}
        IN  /\ (/\ par.found
                /\ GetFileName(last.path) \notin InUseNames(t)
                /\ HasFreeSlot(t)
                /\ NumClear(PersistedBitmap(last.before)) >= SectorsNeeded(last.size))
               => (Returned /\ last.ret)
            /\ (last.path[2] \notin anywhere)
               => (Returned /\ ~last.ret /\ disk = last.before)

\* C7: CreateDirectory(path) reports an invalid path and writes nothing when
\* some intermediate segment of path is not a directory at its place on the
\* way from the root, also when a directory of that name exists elsewhere.
C7_CreateDirectoryInvalidPath ==
    (Observed("CreateDirectory") /\ ~TrueParent(last.before, last.path).found) =>
        /\ Returned
        /\ last.note = "invalid path"
        /\ PersistedBitmap(disk) = PersistedBitmap(last.before)
        /\ \A s \in 0..(NumSectors - 1) :
              PersistedBitmap(last.before)[s] => disk[s] = last.before[s]

\* C8: a CreateDirectory(path) that cannot complete (the name exists in the
\* parent table, the table is full, or the bitmap has too few clear sectors)
\* leaves the on-disk bitmap and the on-disk parent table as they were.
C8_CreateDirectoryFailsClean ==
    (Observed("CreateDirectory") /\ CodeParent(last.before, last.path).found) =>
        LET par == CodeParent(last.before, last.path)
            t == TableOf(last.before, par.h)
        IN  (\/ GetFileName(last.path) \in InUseNames(t)
             \/ ~HasFreeSlot(t)
             \/ NumClear(PersistedBitmap(last.before)) < SectorsNeeded(DirectoryFileSize))
            => /\ PersistedBitmap(disk) = PersistedBitmap(last.before)
               /\ TableOf(disk, par.h) = t

\* C9: Deallocate after a successful Allocate of any size (no sector, one,
\* a full index block, one more than a full index block, a size that takes
\* the last clear sectors) gives back the bitmap Allocate started from.
C9_DeallocateRestoresBitmap ==
    (phase = "freed") => (Returned /\ freeMap = last.before)

\* C9 witness: a file of one more sector than an index block holds, which
\* took the last clear sectors for its data and its two index blocks, has
\* been deallocated
C9_Witness ==
    /\ phase = "freed"
    /\ hdr.numSectors = IndexSlots + 1
    /\ NumClear(last.before) = IndexSlots + 3

\* the slots of the index blocks of hdr that do not hold the sentinel
AllocatedSlots ==
    {p \in (0..(divRoundUp(hdr.numSectors, IndexSlots) - 1)) \X (0..(IndexSlots - 1)) :
        disk[hdr.dataSectors[p[1]]].v[p[2]] # -1}

\* C10: after Allocate returns true, the first ceil(numSectors/32) pointers
\* of the header are valid sectors, the index blocks hold numSectors slots
\* other than the sentinel, and all these sectors are distinct and set in
\* the bitmap.
C10_AllocateWellFormed ==
    (phase = "allocated" /\ Returned /\ last.ret) =>
        /\ divRoundUp(hdr.numSectors, IndexSlots) <= NumDirect
        /\ \A i \in 0..(divRoundUp(hdr.numSectors, IndexSlots) - 1) :
              /\ hdr.dataSectors[i] \in 0..(AllocSectors - 1)
              /\ freeMap[hdr.dataSectors[i]]
        /\ \A i, k \in 0..(divRoundUp(hdr.numSectors, IndexSlots) - 1) :
              i # k => hdr.dataSectors[i] # hdr.dataSectors[k]
        /\ Cardinality(AllocatedSlots) = hdr.numSectors
        /\ \A p \in AllocatedSlots :
              LET s == disk[hdr.dataSectors[p[1]]].v[p[2]]
              IN  /\ Test(freeMap, s)
                  /\ \A i \in 0..(divRoundUp(hdr.numSectors, IndexSlots) - 1) :
                        hdr.dataSectors[i] # s
                  /\ \A q \in AllocatedSlots :
                        q # p => disk[hdr.dataSectors[q[1]]].v[q[2]] # s

IsWriteBack(e) == e # "sector"
\* the WriteBack calls of the observed call, in order
WriteBacks == SelectSeq(last.log, IsWriteBack)

\* C11: a Create that returns true has made exactly three write-backs, the
\* file header, then the parent directory table, then the bitmap, and the
\* write of the bitmap is the last thing written; a Create that returns false
\* has made no write-back.
C11_CreateWriteOrder ==
    (Observed("Create") /\ Returned) =>
        IF last.ret
        THEN /\ WriteBacks = <<"hdr", "dir", "bitmap">>
             /\ SubSeq(last.log, Len(last.log) - 1, Len(last.log)) = <<"bitmap", "sector">>
        ELSE WriteBacks = <<>>

\* C11 witness: a Create with data sectors in a sub-directory has returned
\* true after writing its index block and making its write-backs
C11_Witness ==
    /\ Observed("Create")
    /\ Returned
    /\ last.ret
    /\ last.size > 0
    /\ Len(last.path) = 2
    /\ Len(last.log) > 4

\* C12: Create and CreateDirectory refuse a path whose final component is
\* longer than 9 bytes or whose full length is over 255 bytes, with no sector
\* written and no write-back made; a path with a final component of at most
\* 9 bytes and at most 255 bytes in all is not refused for its length, and a
\* new name of exactly 9 bytes in the root is created.
C12_LengthLimits ==
    (phase = "observed" /\ last.op \in {"Create", "CreateDirectory"}) =>
        IF Len(GetFileName(last.path)) > 9 \/ PathLen(last.path) > 255
        THEN /\ Returned
             /\ ~last.ret
             /\ last.note = "too long"
             /\ last.log = <<>>
             /\ disk = last.before
        ELSE /\ last.note # "too long"
             /\ (/\ last.path = <<Stretch(9)>>
                 /\ last.before = Format.m.disk
                 /\ last.size = 0)
                => (/\ Returned
                    /\ last.log # <<>>
                    /\ Stretch(9) \in InUseNames(TableOf(disk, directoryFile)))

\* C12 witness: with a name of 9 bytes already made in the root, a
\* CreateDirectory of a path of 256 bytes ending in 9 bytes has been refused
C12_Witness ==
    /\ Observed("CreateDirectory")
    /\ PathLen(last.path) = 256
    /\ Len(GetFileName(last.path)) = 9
    /\ last.note = "too long"
    /\ Stretch(9) \in InUseNames(TableOf(disk, directoryFile))

\* C13: Open(path) writes nothing, reads no sector outside the disk, returns
\* a handle on the header sector of the entry when every segment of path
\* resolves from the root, and returns NULL for every other path, also when
\* the directory prefix does not resolve.
C13_OpenIsPure ==
    Observed("Open") =>
        LET par == TrueParent(last.before, last.path)
            t == TableOf(last.before, par.h)
            resolves == par.found /\ GetFileName(last.path) \in InUseNames(t)
        IN  /\ fault # "badsector"
            /\ disk = last.before
            /\ last.log = <<>>
            /\ Returned =>
                  IF resolves
                  THEN last.handle = t[EntryNamed(t, GetFileName(last.path))].sector
                  ELSE last.handle = -1

\* C14: SysOpen returns -1 and leaves the descriptor table as it was when
\* Open returned NULL or when no slot is free; otherwise it stores the handle
\* in the lowest free slot p and returns p + 1.
C14_SysOpenResult ==
    (phase = "fd" /\ last.op = "SysOpen" /\ Returned) =>
        LET free == {i \in 0..(FdSlots - 1) : last.table0[i] = NULL}
        IN  IF last.file = NULL \/ free = {}
            THEN last.ret = -1 /\ fileDescriptorTable = last.table0
            ELSE /\ last.ret = MinOf(free) + 1
                 /\ fileDescriptorTable = [last.table0 EXCEPT ![MinOf(free)] = last.file]

\* C15: after Close(id) returns 1 the slot id - 1 is free; Read and Write on
\* an id the caller does not hold return -1; and SysOpen of a file that
\* exists does not return -1 while the caller holds fewer than 20 ids.
C15_CloseFreesSlot ==
    (phase = "fd") =>
        /\ (last.op = "Close" /\ last.ret = 1) => fileDescriptorTable[last.id - 1] = NULL
        /\ (last.op \in {"Read", "Write"} /\ last.id \notin last.open0) => last.ret = -1
        /\ (last.op = "SysOpen" /\ Returned /\ last.file # NULL
                /\ Cardinality(last.open0) < FdSlots) => last.ret # -1

\* the slots in use of table t, lowest first
SlotsInUse(t) ==
    LET used == {i \in 0..(NumDirEntries - 1) : t[i].inUse}
    IN  CHOOSE q \in [1..Cardinality(used) -> used] :
            \A i, j \in 1..Cardinality(used) : i < j => q[i] < q[j]

\* the line List owes to slot i of table t at a level
LineOf(t, i, level) ==
    [level |-> level, slot |-> i, name |-> t[i].name,
     type |-> IF t[i].type = "DIR" THEN "D" ELSE "F"]

IsTopLine(l) == l.level = 0

\* the position in lines of the k-th line of level 0
TopPosition(lines, k) ==
    CHOOSE n \in 1..Len(lines) :
        /\ IsTopLine(lines[n])
        /\ Cardinality({x \in 1..n : IsTopLine(lines[x])}) = k

\* the lines after position n up to the next line of level 0
Below(lines, n) ==
    LET nxt == {x \in (n + 1)..Len(lines) : IsTopLine(lines[x])}
    IN  SubSeq(lines, n + 1, IF nxt = {} THEN Len(lines) ELSE MinOf(nxt) - 1)

\* C16: List(0, recursive) prints one line per in-use entry of the table, in
\* slot order, at level 0; not recursive, it prints nothing else; recursive,
\* the lines of each sub-directory follow that sub-directory's line: its
\* in-use entries in slot order at level 1 (with their own sub-directories
\* below them, deeper), and nothing follows a file.  A directory with one
\* file and one sub-directory holding one file gives two lines at level 0,
\* and recursively three lines with the nested file at level 1.
C16_ListDepthFirst ==
    (Observed("List") /\ Returned) =>
        LET t == last.table
            slots == SlotsInUse(t)
            top == SelectSeq(last.lines, IsTopLine)
            child(i) == TableOf(last.before, HeaderAt(last.before, t[i].sector))
        IN  /\ top = [k \in 1..Len(slots) |-> LineOf(t, slots[k], 0)]
            /\ ~last.rec => last.lines = top
            /\ last.rec =>
                  \A k \in 1..Len(slots) :
                     LET under == Below(last.lines, TopPosition(last.lines, k))
                         first == SelectSeq(under, LAMBDA l : l.level = 1)
                     IN  IF t[slots[k]].type = "DIR"
                         THEN /\ first = [n \in 1..Len(SlotsInUse(child(slots[k]))) |->
                                            LineOf(child(slots[k]),
                                                   SlotsInUse(child(slots[k]))[n], 1)]
                              /\ under # <<>> => under[1].level = 1
                              /\ \A n \in 2..Len(under) :
                                    under[n].level <= under[n - 1].level + 1
                         ELSE under = <<>>
            /\ (/\ Len(slots) = 2
                /\ \E f, d \in {slots[1], slots[2]} :
                      /\ t[f].type = "FILE"
                      /\ t[d].type = "DIR"
                      /\ Len(SlotsInUse(child(d))) = 1
                      /\ child(d)[SlotsInUse(child(d))[1]].type = "FILE")
               => /\ Len(top) = 2
                  /\ Len(last.lines) = IF last.rec THEN 3 ELSE 2
                  /\ \A n \in 1..Len(last.lines) :
                        last.lines[n].level = 1 => last.lines[n].type = "F"

\* C16 witness: the root with one file and one sub-directory that holds one
\* file has been listed recursively: three lines, one of them at level 1
C16_Witness ==
    /\ Observed("List")
    /\ Returned
    /\ last.rec
    /\ last.path = <<>>
    /\ Len(last.lines) = 3
    /\ \E n \in 1..3 : last.lines[n].level = 1 /\ last.lines[n].type = "F"
    /\ \E n \in 1..3 : last.lines[n].level = 0 /\ last.lines[n].type = "F"

\* C17: after formatting and after any sequence of Create, CreateDirectory
\* and Remove calls, bits 0 and 1 of the persisted bitmap are set and no file
\* or directory reachable from the root has sector 0 or 1 as its header
\* sector, as an index block or as a data sector.
C17_ReservedSectors ==
    (phase \in {"fs", "observed"} /\ Returned) =>
        /\ PersistedBitmap(disk)[FreeMapSector]
        /\ PersistedBitmap(disk)[DirectorySector]
        /\ \A e \in LiveEntries(disk) :
              FileSectors(disk, e.sector) \cap {FreeMapSector, DirectorySector} = {}

\* the directories reachable from the root, as the sectors of their headers
DirSectors(d) == {DirectorySector} \cup {e.sector : e \in {x \in LiveEntries(d) : x.type = "DIR"}}

\* C18: when Create(path, size) returns true, the directory reached by
\* following every segment of the prefix of path from the root exists, the
\* final component is a new in-use entry of its table, and the table of
\* every other directory is as it was; when some segment of the prefix does
\* not exist on that way, Create returns false.
C18_CreateInTrueParent ==
    (Observed("Create") /\ Returned) =>
        LET par == TrueParent(last.before, last.path)
        IN  /\ ~par.found => ~last.ret
            /\ (last.ret /\ par.found) =>
                  /\ GetFileName(last.path) \notin InUseNames(TableOf(last.before, par.h))
                  /\ GetFileName(last.path) \in InUseNames(TableOf(disk, par.h))
                  /\ \A s \in DirSectors(last.before) \ {par.s} :
                        TableOf(disk, HeaderAt(last.before, s))
                           = TableOf(last.before, HeaderAt(last.before, s))

\* the sectors of the object entry e names: its own, and for a directory
\* removed recursively those of everything below it
ObjectSectors(d, e, recursive) ==
    FileSectors(d, e.sector) \cup
    (IF recursive /\ e.type = "DIR"
     THEN UNION {FileSectors(d, x.sector) :
                    x \in EntriesBelow(d, HeaderAt(d, e.sector), MaxNest)}
     ELSE {})

\* the sectors whose bit was set before the observed call and is clear after
ClearedBits ==
    {s \in 0..(NumSectors - 1) : PersistedBitmap(last.before)[s] /\ ~PersistedBitmap(disk)[s]}

\* C19: Remove(path, recursive) looks the final component up in the table of
\* the directory the prefix of path leads to from the root.  When the name is
\* not in that table, Remove returns false and writes nothing, also when the
\* name is in use in another directory; when it is, no bit is cleared but
\* those of the object at path.
C19_RemoveExactlyPath ==
    (Observed("Remove") /\ TrueParent(last.before, last.path).found) =>
        LET t == TableOf(last.before, TrueParent(last.before, last.path).h)
        IN  IF GetFileName(last.path) \notin InUseNames(t)
            THEN /\ Returned
                 /\ ~last.ret
                 /\ last.log = <<>>
                 /\ disk = last.before
            ELSE Returned =>
                    ClearedBits \subseteq
                        ObjectSectors(last.before, t[EntryNamed(t, GetFileName(last.path))],
                                      last.rec)

\* C20: a recursive Remove whose target is a plain file does not treat it as
\* a directory: the call returns, it makes no write-back but those of the
\* bitmap and of the parent table (none from RemoveAll into the file), the
\* sectors of the file hold what they held, and the only bits cleared are
\* those of the file's header, index blocks and data sectors.
C20_RecursiveRemoveOfFile ==
    (Observed("Remove") /\ last.rec /\ TrueParent(last.before, last.path).found) =>
        LET t == TableOf(last.before, TrueParent(last.before, last.path).h)
            name == GetFileName(last.path)
        IN  (name \in InUseNames(t) /\ t[EntryNamed(t, name)].type = "FILE") =>
               /\ Returned
               /\ Cardinality({n \in 1..Len(last.log) : last.log[n] = "dir"}) <= 1
               /\ \A s \in FileSectors(last.before, t[EntryNamed(t, name)].sector) :
                     disk[s] = last.before[s]
               /\ ClearedBits \subseteq
                     FileSectors(last.before, t[EntryNamed(t, name)].sector)

\* path names an object: every segment of its prefix is a directory on the
\* way from the root, and its final component is in use in the last of them
Resolves(d, path) ==
    /\ TrueParent(d, path).found
    /\ GetFileName(path) \in InUseNames(TableOf(d, TrueParent(d, path).h))

\* C21: Remove(path, recursive), recursive or not, of a path that does not
\* resolve (the final component is not in the parent table, or the prefix
\* leads to no directory) returns false, writes neither the bitmap nor a
\* directory table, and reads no sector outside the disk.
C21_RemoveUnresolved ==
    (Observed("Remove") /\ ~Resolves(last.before, last.path)) =>
        /\ fault # "badsector"
        /\ Returned
        /\ ~last.ret
        /\ last.log = <<>>
        /\ disk = last.before

\* the table of the directory that entry e of a table names
ChildTable(d, e) == TableOf(d, HeaderAt(d, e.sector))

\* name is in use in table t or in a table below it
RECURSIVE Holds(_, _, _, _)
Holds(d, t, name, fuel) ==
    \/ name \in InUseNames(t)
    \/ /\ fuel > 0
       /\ \E i \in 0..(NumDirEntries - 1) :
             t[i].inUse /\ t[i].type = "DIR" /\ Holds(d, ChildTable(d, t[i]), name, fuel - 1)

\* what the recursive search owes: the local match, else the search in the
\* lowest sub-directory entry whose subtree holds name, else -1
RECURSIVE Sought(_, _, _, _)
Sought(d, t, name, fuel) ==
    LET subs == {i \in 0..(NumDirEntries - 1) :
                    t[i].inUse /\ t[i].type = "DIR" /\ fuel > 0
                    /\ Holds(d, ChildTable(d, t[i]), name, fuel - 1)}
    IN  IF name \in InUseNames(t) THEN t[EntryNamed(t, name)].sector
        ELSE IF subs = {} THEN -1
        ELSE Sought(d, ChildTable(d, t[MinOf(subs)]), name, fuel - 1)

\* C22: Find(name, recursive) writes nothing.  Not recursive, it returns the
\* sector of the in-use entry of the table with that name, else -1.
\* Recursive, it returns the local match when there is one, otherwise the
\* result of the search in the lowest in-use sub-directory entry whose
\* subtree holds name, and -1 exactly when no table of the subtree has an
\* in-use entry of that name.
C22_FindDepthFirst ==
    Observed("Find") =>
        /\ disk = last.before
        /\ last.log = <<>>
        /\ Returned =>
              /\ ~last.rec =>
                    last.sector = IF last.name \in InUseNames(last.table)
                                  THEN last.table[EntryNamed(last.table, last.name)].sector
                                  ELSE -1
              /\ last.rec =>
                    /\ last.sector = Sought(last.before, last.table, last.name, MaxNest)
                    /\ last.sector = -1 <=>
                          ~Holds(last.before, last.table, last.name, MaxNest)

\* C22 witness: a recursive Find from the root has passed over a first
\* sub-directory that does not hold the name and found it in the second
C22_Witness ==
    /\ Observed("Find")
    /\ Returned
    /\ last.rec
    /\ last.name \notin InUseNames(last.table)
    /\ last.table[0].inUse /\ last.table[0].type = "DIR"
    /\ ~Holds(last.before, ChildTable(last.before, last.table[0]), last.name, MaxNest)
    /\ last.sector # -1

FreeSlots(t) == {i \in 0..(NumDirEntries - 1) : ~t[i].inUse}

\* C23: Add(name, sector, type) returns false and leaves the table as it was
\* when the name is in use in it or when no slot is free; otherwise it
\* returns true and fills the lowest free slot with (name, sector, type),
\* every other slot unchanged.  After any sequence of Add and Remove calls
\* no two in-use entries of the table have the same name and no more than
\* NumDirEntries entries are in use.
C23_AddKeepsNamesUnique ==
    (phase = "dir") =>
        /\ \A i, j \in 0..(NumDirEntries - 1) :
              (i # j /\ dirTable[i].inUse /\ dirTable[j].inUse)
                 => dirTable[i].name # dirTable[j].name
        /\ Cardinality((0..(NumDirEntries - 1)) \ FreeSlots(dirTable)) <= NumDirEntries
        /\ DOMAIN dirTable = 0..(NumDirEntries - 1)
        /\ last.op = "Add" =>
              IF last.name \in InUseNames(last.before) \/ FreeSlots(last.before) = {}
              THEN ~last.ret /\ dirTable = last.before
              ELSE /\ last.ret
                   /\ dirTable = [last.before EXCEPT ![MinOf(FreeSlots(last.before))] =
                                     [inUse |-> TRUE, name |-> last.name,
                                      sector |-> last.sector, type |-> last.type]]

\* C23 witness: an Add of a new name has been refused by a full table, one
\* of whose slots was freed and filled again before
C23_Witness ==
    /\ phase = "dir"
    /\ last.op = "Add"
    /\ ~last.ret
    /\ FreeSlots(last.before) = {}
    /\ last.name \notin InUseNames(last.before)
    /\ nops = DirOps

\* C24: for the header a successful Allocate filled and an offset
\* 0 <= offset < FileLength(), ByteToSector(offset) returns slot (k mod 32)
\* of the index block dataSectors[k div 32], k = offset div SectorSize; the
\* value is a sector of the disk that is set in the bitmap, never the
\* sentinel -1, and offsets of different k give different sectors.
C24_ByteToSectorValid ==
    (phase = "mapped") =>
        LET k == divRoundDown(last.offset, SectorSize)
        IN  /\ Returned
            /\ last.sector = disk[hdr.dataSectors[divRoundDown(k, IndexSlots)]].v[k % IndexSlots]
            /\ last.sector \in 0..(AllocSectors - 1)
            /\ Test(freeMap, last.sector)
            /\ \A o \in 0..(FileLength(hdr) - 1) :
                  divRoundDown(o, SectorSize) # k
                     => ByteToSector(Mach(disk, fault), hdr, o).s # last.sector

\* C25: in no sequence of Create, CreateDirectory and Remove calls (the same
\* path removed twice among them) is a fatal check reached: neither the
\* ASSERT of Deallocate on the bit of an index block nor the one of
\* Bitmap::Clear on a bit that is already clear stops the program.
C25_FatalChecksUnreached ==
    (phase \in {"fs", "observed"}) => fault # "assert"

\* C26: after any sequence of Create, CreateDirectory and Remove calls the
\* namespace on disk is a tree with exclusive sector ownership: no two in-use
\* entries of the tables reachable from the root name the same header
\* sector, and no sector is a header, index-block or data sector of two of
\* the files and directories they name, or of one of them and of the bitmap
\* file or the root directory file.
C26_ExclusiveOwnership ==
    (phase \in {"fs", "observed"} /\ Returned) =>
        /\ \A e1, e2 \in LiveEntries(disk) :
              e1 # e2 => FileSectors(disk, e1.sector) \cap FileSectors(disk, e2.sector) = {}
        /\ \A e \in LiveEntries(disk) :
              FileSectors(disk, e.sector)
                 \cap (FileSectors(disk, FreeMapSector) \cup FileSectors(disk, DirectorySector)) = {}

\* C27: a Create(path, size) of a plain file that returned true, in the
\* root or in a directory every segment of the path leads to, followed by
\* the non-recursive Remove(path): Remove returns true, and the persisted
\* bitmap and the set of in-use names of the persisted table of the parent
\* directory are what they were before the Create.
C27_CreateThenRemove ==
    (phase = "unmade" /\ TrueParent(last.before, last.path).found) =>
        /\ Returned
        /\ last.ret
        /\ PersistedBitmap(disk) = PersistedBitmap(last.before)
        /\ InUseNames(TableOf(disk, TrueParent(last.before, last.path).h))
             = InUseNames(TableOf(last.before, TrueParent(last.before, last.path).h))

\* C28: two Create calls run as threads whose steps interleave at the disk
\* operations never obtain the same header or data sector, and once both
\* have returned true both new names are in use in the persisted table of
\* the root and the sectors of both are set in the persisted bitmap.
C28_ThreadsShareNoSector ==
    (phase = "race") =>
        /\ threads[1].got \cap threads[2].got = {}
        /\ (Returned /\ \A t \in Threads : threads[t].pc = "done" /\ threads[t].ret) =>
              \A t \in Threads :
                 /\ threads[t].name \in InUseNames(TableOf(disk, directoryFile))
                 /\ \A x \in threads[t].got : PersistedBitmap(disk)[x]

\* the segment of path just before the final component names a plain file
\* of the directory the segments before it lead to
ParentIsPlainFile(d, path) ==
    /\ Len(path) >= 2
    /\ LET up == Walk(d, directoryFile, DirectorySector, Prefix(Prefix(path)))
           t == TableOf(d, up.h)
       IN  /\ up.found
           /\ \E i \in 0..(NumDirEntries - 1) :
                 t[i].inUse /\ t[i].name = path[Len(path) - 1] /\ t[i].type = "FILE"

\* C29: Create, CreateDirectory, Open and Remove on a path whose parent
\* segment names a plain file return false (NULL) and write nothing: the
\* prefix of a path resolves to entries of type directory only.
C29_PlainFileIsNoParent ==
    (phase = "observed" /\ last.op \in {"Create", "CreateDirectory", "Open", "Remove"}
        /\ ParentIsPlainFile(last.before, last.path)) =>
        /\ Returned
        /\ ~last.ret
        /\ last.log = <<>>
        /\ disk = last.before

====
